---------------------------- MODULE Spec2Model ----------------------------
(***************************************************************************)
(* Model of the ChatterBox serverless text-to-speech worker:               *)
(*   src/inference.py  ChatterBoxInference (_smart_chunk_text, load_model, *)
(*                     process_audio_prompt, generate)                     *)
(*   src/handler.py    handler, _extract_and_validate_params,              *)
(*                     handler_batch, handler_stream, upload_to_s3         *)
(*   src/config.py     validation ranges and defaults                      *)
(*                                                                         *)
(* A Python str is modelled as a sequence of one-character strings, so     *)
(* len(), slicing, strip() and split() are computed character by           *)
(* character as the interpreter computes them.                             *)
(***************************************************************************)
EXTENDS Integers, Sequences, FiniteSets, TLC

(***************************************************************************)
(* Bounds of the segmenter specification.                                  *)
(***************************************************************************)
\* longest text drawn for the segmenter
MaxLen == 5
\* largest max_chars drawn for the segmenter
MaxChars == 3

\* characters the drawn texts are made of: two letters, the blank, a sentence
\* mark, a clause mark and the dash of the ' - ' clause boundary
Alphabet == {"a", "b", " ", ".", ",", "-"}

(***************************************************************************)
(* Python string helpers.                                                  *)
(***************************************************************************)
\* str.isspace() for one character (the characters strip() and split() remove)
IsSpace(c) == c \in {" ", "\n", "\t", "\r"}

RECURSIVE LStrip(_)
LStrip(s) == IF s # <<>> /\ IsSpace(Head(s)) THEN LStrip(Tail(s)) ELSE s

RECURSIVE RStrip(_)
RStrip(s) ==
    IF s # <<>> /\ IsSpace(s[Len(s)]) THEN RStrip(SubSeq(s, 1, Len(s) - 1)) ELSE s

\* str.strip()
Strip(s) == RStrip(LStrip(s))

\* str.split(): the whitespace-delimited tokens of s, in order
RECURSIVE SplitFrom(_, _, _, _)
SplitFrom(s, i, word, acc) ==
    IF i > Len(s)
    THEN IF word # <<>> THEN Append(acc, word) ELSE acc
    ELSE IF IsSpace(s[i])
         THEN SplitFrom(s, i + 1, <<>>, IF word # <<>> THEN Append(acc, word) ELSE acc)
         ELSE SplitFrom(s, i + 1, Append(word, s[i]), acc)

Split(s) == SplitFrom(s, 1, <<>>, <<>>)

\* " ".join(parts)
RECURSIVE JoinSpace(_)
JoinSpace(parts) ==
    IF parts = <<>> THEN <<>>
    ELSE IF Len(parts) = 1 THEN parts[1]
    ELSE parts[1] \o <<" ">> \o JoinSpace(Tail(parts))

(***************************************************************************)
(* _smart_chunk_text                                                       *)
(***************************************************************************)
sentence_endings ==
    << <<".", " ">>, <<"!", " ">>, <<"?", " ">>,
       <<".", "\n">>, <<"!", "\n">>, <<"?", "\n">> >>

\* clause boundaries that do not ask for the blank after the punctuation
clause_boundaries_bare ==
    << <<",">>, <<";">>, <<":">>, <<"-">>, <<"emdash">> >>

\* "emdash" stands for the one character U+2014
clause_boundaries ==
    << <<",", " ">>, <<";", " ">>, <<":", " ">>,
       <<" ", "-", " ">>, <<" ", "emdash", " ">> >>

\* text_segment[i:i+len(boundary)] == boundary, with i counted from 1
AtBoundary(text_segment, i, boundary) ==
    /\ i + Len(boundary) - 1 <= Len(text_segment)
    /\ SubSeq(text_segment, i, i + Len(boundary) - 1) = boundary

\* the indices of the boundaries that match at i; the for loop takes the first
MatchingBoundaries(text_segment, i, boundaries) ==
    {b \in 1..Len(boundaries) : AtBoundary(text_segment, i, boundaries[b])}

FirstMatch(text_segment, i, boundaries) ==
    CHOOSE b \in MatchingBoundaries(text_segment, i, boundaries) :
        \A c \in MatchingBoundaries(text_segment, i, boundaries) : b <= c

\* how far i moves past a matched boundary, besides the loop's own i += 1
BoundarySkip(boundary) == Len(boundary) - 1

\* the while loop of split_at_boundaries
RECURSIVE SplitLoop(_, _, _, _, _)
SplitLoop(text_segment, boundaries, i, current, parts) ==
    IF i > Len(text_segment)
    THEN IF current # <<>> THEN Append(parts, current) ELSE parts
    ELSE LET cur == Append(current, text_segment[i])
         IN  IF MatchingBoundaries(text_segment, i, boundaries) # {}
             THEN SplitLoop(text_segment, boundaries,
                            i + BoundarySkip(boundaries[FirstMatch(text_segment, i, boundaries)]) + 1,
                            <<>>, Append(parts, cur))
             ELSE SplitLoop(text_segment, boundaries, i + 1, cur, parts)

split_at_boundaries(text_segment, boundaries) ==
    SplitLoop(text_segment, boundaries, 1, <<>>, <<>>)

\* the packing state of the outer loop: the chunks flushed and current_chunk
PackInit == [chunks |-> <<>>, current_chunk |-> <<>>]

\* if current_chunk: chunks.append(current_chunk.strip()); current_chunk = ""
Flush(st) ==
    IF st.current_chunk # <<>>
    THEN [chunks |-> Append(st.chunks, Strip(st.current_chunk)), current_chunk |-> <<>>]
    ELSE st

\* the greedy step used for a word, a clause and a sentence alike
Accumulate(st, piece, max_chars) ==
    IF Len(st.current_chunk) + Len(piece) + 1 <= max_chars
    THEN [st EXCEPT !.current_chunk =
              IF st.current_chunk # <<>> THEN st.current_chunk \o <<" ">> \o piece
              ELSE piece]
    ELSE [chunks |-> IF st.current_chunk # <<>>
                     THEN Append(st.chunks, Strip(st.current_chunk))
                     ELSE st.chunks,
          current_chunk |-> piece]

RECURSIVE PackWords(_, _, _)
PackWords(st, words, max_chars) ==
    IF words = <<>> THEN st
    ELSE PackWords(Accumulate(st, Head(words), max_chars), Tail(words), max_chars)

\* one iteration of `for clause in clauses`
PackClause(st, rawClause, max_chars) ==
    LET clause == Strip(rawClause)
    IN  IF clause = <<>> THEN st
        ELSE IF Len(clause) > max_chars
             THEN PackWords(Flush(st), Split(clause), max_chars)
             ELSE Accumulate(st, clause, max_chars)

RECURSIVE PackClauses(_, _, _)
PackClauses(st, clauses, max_chars) ==
    IF clauses = <<>> THEN st
    ELSE PackClauses(PackClause(st, Head(clauses), max_chars), Tail(clauses), max_chars)

\* one iteration of `for segment in segments`
PackSegment(st, rawSegment, max_chars) ==
    LET segment == Strip(rawSegment)
    IN  IF segment = <<>> THEN st
        ELSE IF Len(segment) > max_chars
             THEN PackClauses(Flush(st),
                              split_at_boundaries(segment, clause_boundaries), max_chars)
             ELSE Accumulate(st, segment, max_chars)

RECURSIVE PackSegments(_, _, _)
PackSegments(st, segments, max_chars) ==
    IF segments = <<>> THEN st
    ELSE PackSegments(PackSegment(st, Head(segments), max_chars), Tail(segments), max_chars)

\* chunks = [c for c in chunks if c.strip()]
RECURSIVE FilterEmpty(_)
FilterEmpty(cs) ==
    IF cs = <<>> THEN <<>>
    ELSE IF Strip(Head(cs)) # <<>> THEN <<Head(cs)>> \o FilterEmpty(Tail(cs))
    ELSE FilterEmpty(Tail(cs))

\* the short-text test off by one: a text of exactly max_chars is cut up
ShortTextStrict(text, max_chars) == Len(text) < max_chars

\* if len(text) <= max_chars: return [text]
ShortText(text, max_chars) == Len(text) <= max_chars

\* what the short-text return hands back
ShortResult(text) == <<text>>

smart_chunk_text(text, max_chars) ==
    IF ShortText(text, max_chars) THEN ShortResult(text)
    ELSE LET segments == split_at_boundaries(text, sentence_endings)
             packed   == Flush(PackSegments(PackInit, segments, max_chars))
             chunks   == FilterEmpty(packed.chunks)
         IN  IF chunks = <<>> THEN <<text>> ELSE chunks

(***************************************************************************)
(* Configuration (src/config.py).  Floating-point settings are kept in     *)
(* hundredths, so 0.5 is 50 and the range [0.1, 2.0] is 10..200.           *)
(***************************************************************************)
DEFAULT_EXAGGERATION == 50
DEFAULT_CFG_WEIGHT == 50
DEFAULT_TEMPERATURE == 80
DEFAULT_REPETITION_PENALTY == 200
DEFAULT_MIN_P == 5
DEFAULT_TOP_P == 100
MIN_EXAGGERATION == 0
MAX_EXAGGERATION == 100
MIN_CFG_WEIGHT == 0
MAX_CFG_WEIGHT == 100
MIN_TEMPERATURE == 10
MAX_TEMPERATURE == 200
MIN_TOP_P == 0
MAX_TOP_P == 100
\* config.py defines no top_k settings; handler.py reads config.DEFAULT_TOP_K,
\* MIN_TOP_K and MAX_TOP_K, whose values its docstring gives as 0-1000, default 1000
DEFAULT_TOP_K == 1000
MIN_TOP_K == 0
MAX_TOP_K == 1000
\* MAX_TEXT_LENGTH is read from the environment (default 2000) and
\* config.MAX_CHUNK_CHARS is read by ChatterBoxInference.__init__ (550 in the
\* docstring of generate); the model runs a deployment configured with texts of
\* at most 6 characters cut into chunks of at most 2
MAX_TEXT_LENGTH == 6
MAX_CHUNK_CHARS == 2

(***************************************************************************)
(* Job inputs.                                                             *)
(***************************************************************************)
\* at most this many optional fields are given in one job input
MaxGiven == 1

\* model.generate returns at most this many samples for a chunk
MaxSamples == 2

\* a field of the job input: not given, a number, or a value float()/int() rejects
Absent == [k |-> "absent", v |-> 0]
Num(n) == [k |-> "num", v |-> n]
NonNumeric == [k |-> "str", v |-> 0]
\* a string field that is given
Str(s) == [k |-> "text", v |-> s]

\* the texts of the jobs: none, one chunk returned as is, one chunk cut out of
\* a longer text, two chunks, three chunks, and a text over MAX_TEXT_LENGTH
JobTexts ==
    { <<>>,
      <<"a">>,
      <<" ", "a", "b">>,
      <<"a", " ", "b">>,
      <<"a", " ", "b", " ", "a">>,
      <<"a", " ", "b", " ", "a", " ", "b">> }

\* values tried for a ranged parameter: just outside, the two ends, not a number
Around(lo, hi) == {Num(lo - 1), Num(lo), Num(hi), Num(hi + 1), NonNumeric}

OptionalValues ==
    [ exaggeration       |-> Around(MIN_EXAGGERATION, MAX_EXAGGERATION),
      cfg_weight         |-> Around(MIN_CFG_WEIGHT, MAX_CFG_WEIGHT),
      temperature        |-> Around(MIN_TEMPERATURE, MAX_TEMPERATURE),
      repetition_penalty |-> {Num(100), Num(1000), NonNumeric},
      min_p              |-> Around(0, 100),
      top_p              |-> Around(MIN_TOP_P, MAX_TOP_P),
      top_k              |-> Around(MIN_TOP_K, MAX_TOP_K),
      audio_prompt       |-> {Str("voice.wav"), Str("nofile.wav")},
      output_format      |-> {Str("pcm_16"), Str("mp3")} ]

OptionalFields == DOMAIN OptionalValues

NothingGiven == [f \in OptionalFields |-> Absent]

\* the optional parts of a job input with at most n fields given
RECURSIVE Given(_)
Given(n) ==
    IF n = 0 THEN {NothingGiven}
    ELSE Given(n - 1) \cup
         UNION { UNION { { [o EXCEPT ![f] = x] : x \in OptionalValues[f] }
                         : f \in {g \in OptionalFields : o[g] = Absent} }
                 : o \in Given(n - 1) }

JobInputs ==
    { [text |-> t, stream |-> s, opt |-> o] :
        t \in JobTexts, s \in BOOLEAN, o \in Given(MaxGiven) }

\* job_input.get(field, default) for a numeric field, before float()/int()
GetOr(job_input, field, default) ==
    IF job_input.opt[field] = Absent THEN Num(default) ELSE job_input.opt[field]

\* job_input.get("output_format", "pcm_16")
OutputFormat(job_input) ==
    IF job_input.opt.output_format = Absent THEN "pcm_16"
    ELSE job_input.opt.output_format.v

\* job_input.get("audio_prompt"): "" stands for None
AudioPrompt(job_input) ==
    IF job_input.opt.audio_prompt = Absent THEN "" ELSE job_input.opt.audio_prompt.v

(***************************************************************************)
(* _extract_and_validate_params                                            *)
(***************************************************************************)
\* the values after the float()/int() conversions, in the order of the code
Raw(job_input) ==
    [ exaggeration       |-> GetOr(job_input, "exaggeration", DEFAULT_EXAGGERATION),
      cfg_weight         |-> GetOr(job_input, "cfg_weight", DEFAULT_CFG_WEIGHT),
      temperature        |-> GetOr(job_input, "temperature", DEFAULT_TEMPERATURE),
      repetition_penalty |-> GetOr(job_input, "repetition_penalty", DEFAULT_REPETITION_PENALTY),
      min_p              |-> GetOr(job_input, "min_p", DEFAULT_MIN_P),
      top_p              |-> GetOr(job_input, "top_p", DEFAULT_TOP_P),
      top_k              |-> GetOr(job_input, "top_k", DEFAULT_TOP_K) ]

\* float(x) / int(x) raises ValueError
ConversionRaises(job_input) ==
    \E f \in DOMAIN Raw(job_input) : Raw(job_input)[f].k = "str"

InRange(lo, x, hi) == lo <= x /\ x <= hi

\* the checks of lines 175-192, in order; "" when all pass
RangeError(text, p) ==
    IF Len(text) > MAX_TEXT_LENGTH THEN "Text length exceeds maximum"
    ELSE IF ~InRange(MIN_EXAGGERATION, p.exaggeration.v, MAX_EXAGGERATION)
         THEN "exaggeration must be between"
    ELSE IF ~InRange(MIN_CFG_WEIGHT, p.cfg_weight.v, MAX_CFG_WEIGHT)
         THEN "cfg_weight must be between"
    ELSE IF ~InRange(MIN_TEMPERATURE, p.temperature.v, MAX_TEMPERATURE)
         THEN "temperature must be between"
    ELSE IF ~InRange(MIN_TOP_P, p.top_p.v, MAX_TOP_P)
         THEN "top_p must be between"
    ELSE IF ~InRange(MIN_TOP_K, p.top_k.v, MAX_TOP_K)
         THEN "top_k must be between"
    ELSE ""

\* the outcome of _extract_and_validate_params: an error dict, an exception
\* raised by a conversion, or the params
extract_and_validate_params(job_input) ==
    IF job_input.text = <<>>
    THEN [kind |-> "error", error |-> "Missing 'text' parameter"]
    ELSE IF ConversionRaises(job_input)
    THEN [kind |-> "raise", error |-> "ValueError"]
    ELSE IF RangeError(job_input.text, Raw(job_input)) # ""
    THEN [kind |-> "error", error |-> RangeError(job_input.text, Raw(job_input))]
    ELSE [kind |-> "params", error |-> ""]

(***************************************************************************)
(* Messages and exceptions.                                                *)
(***************************************************************************)
\* {"error": message}
ErrorMsg(message) == [error |-> message]

\* one streamed chunk (handler.py docstring, "Streaming mode Yields")
StreamChunkMsg(i) == [status |-> "streaming", chunk |-> i, format |-> "pcm_16"]

\* the terminal message of a successful stream
CompleteMsg(n) == [status |-> "complete", format |-> "pcm_16", total_chunks |-> n]

\* sample_rate = inference_engine.model.sr, the rate of the library's decoder
sample_rate == 24000

\* len(wav) / sample_rate, kept as the fraction it is computed from
DurationSec(w) == [num |-> Len(w), den |-> sample_rate]

\* sf.write(audio_buffer, wav, ...) followed by base64.b64encode: the frames of
\* the array, encoded
Base64Ogg(w) == <<"base64", "OGG", w>>

\* the batch response: audio_url when upload_to_s3 returned a URL, else the
\* audio itself under audio_base64
BatchResponse(s3_url, w) ==
    IF s3_url # ""
    THEN [status |-> "success", sample_rate |-> sample_rate,
          duration_sec |-> DurationSec(w), audio_url |-> s3_url]
    ELSE [status |-> "success", sample_rate |-> sample_rate,
          duration_sec |-> DurationSec(w), audio_base64 |-> Base64Ogg(w)]

IsError(m) == "error" \in DOMAIN m
HasStatus(m, st) == "status" \in DOMAIN m /\ m.status = st

\* what model.generate can fail with: the message of the exception it raises
Causes == {"CUDA out of memory", "bad token"}

\* files present under AUDIO_PROMPTS_DIR
PromptFiles == {"voice.wav"}

(***************************************************************************)
(* State.                                                                  *)
(***************************************************************************)
VARIABLES
    seg_text,       \* segmenter run: the text argument
    seg_max,        \* segmenter run: the max_chars argument
    seg_pc,         \* segmenter run: "call" before, "returned" after ("unused": no run)
    seg_out,        \* segmenter run: the list returned
    ld_pc,          \* load_model callers: where each caller is
    ld_model,       \* load_model callers: self.model, 0 for None, else the instance
    ld_built,       \* load_model callers: from_pretrained calls that returned
    ld_seen,        \* load_model callers: the instance the caller's last call returned
    pap_prompt,     \* process_audio_prompt run: the audio_prompt argument
    pap_dir,        \* process_audio_prompt run: AUDIO_PROMPTS_DIR exists
    pap_pc,         \* process_audio_prompt run: "call", "returned", "raised" ("unused": no run)
    pap_out,        \* process_audio_prompt run: the path returned
    model,          \* inference_engine.model: "none" or "loaded"
    conds,          \* inference_engine.model.conds is not None
    s3_bucket,      \* config.S3_BUCKET_NAME is set
    pc,             \* where the handler of the current job is
    job,            \* job["input"] of the current job
    yielded,        \* what the handler generator has yielded for this job
    escaped,        \* the exception that left the handler, "" if none
    loads,          \* load_model calls that ran from_pretrained, this job
    chunks,         \* generate: the list _smart_chunk_text returned
    idx,            \* generate: 0-based index of the next chunk
    calls,          \* the model.generate calls of this job, in call order
    audio_chunks,   \* generate: the per-chunk audio collected so far
    fail_at,        \* index of the chunk whose synthesis call failed, -1 if none
    fail_cause,     \* the message that call raised, "" if none
    upload,         \* the S3 transfer of this job: "none", "skipped", "failed" or "ok"
    wav             \* handler_batch's wav, a 2-D array as a sequence of rows

segvars == <<seg_text, seg_max, seg_pc, seg_out>>
ldvars == <<ld_pc, ld_model, ld_built, ld_seen>>
papvars == <<pap_prompt, pap_dir, pap_pc, pap_out>>
\* the variables of the runs of one function on its own
sidevars == <<segvars, ldvars, papvars>>
envvars == <<model, conds, s3_bucket>>
reqvars == <<pc, job, yielded, escaped, loads, chunks, idx, calls, audio_chunks,
             fail_at, fail_cause, upload, wav>>
vars == <<sidevars, envvars, reqvars>>

\* every text over Alphabet of length 0..MaxLen
Texts == UNION {[1..n -> Alphabet] : n \in 0..MaxLen}

NoJob == [text |-> <<>>, stream |-> FALSE, opt |-> NothingGiven]

\* the worker process after `inference_engine = ChatterBoxInference()`
WorkerIdle ==
    /\ model = "none"
    /\ conds = FALSE
    /\ pc = "idle"
    /\ job = NoJob
    /\ yielded = <<>>
    /\ escaped = ""
    /\ loads = 0
    /\ chunks = <<>>
    /\ idx = 0
    /\ calls = <<>>
    /\ audio_chunks = <<>>
    /\ fail_at = -1
    /\ fail_cause = ""
    /\ upload = "none"
    /\ wav = <<>>

\* no segmenter run of its own
SegIdle ==
    /\ seg_text = <<>>
    /\ seg_max = 1
    /\ seg_pc = "unused"
    /\ seg_out = <<>>

\* no caller of load_model and no run of process_audio_prompt on its own
LoadIdle ==
    /\ ld_pc = <<>>
    /\ ld_model = 0
    /\ ld_built = 0
    /\ ld_seen = <<>>

PromptIdle ==
    /\ pap_prompt = <<>>
    /\ pap_dir = TRUE
    /\ pap_pc = "unused"
    /\ pap_out = <<>>

(***************************************************************************)
(* The segmenter called on its own.                                        *)
(***************************************************************************)
SegInit ==
    /\ seg_text \in Texts
    /\ seg_max \in 1..MaxChars
    /\ seg_pc = "call"
    /\ seg_out = <<>>
    /\ LoadIdle
    /\ PromptIdle
    /\ s3_bucket = FALSE
    /\ WorkerIdle

\* one call of _smart_chunk_text(seg_text, seg_max)
SegCall ==
    /\ seg_pc = "call"
    /\ seg_out' = smart_chunk_text(seg_text, seg_max)
    /\ seg_pc' = "returned"
    /\ UNCHANGED <<seg_text, seg_max, ldvars, papvars, envvars, reqvars>>

SegNext == SegCall

SegSpec == SegInit /\ [][SegNext]_vars

(***************************************************************************)
(* The worker: handler, handler_batch, handler_stream, generate.           *)
(***************************************************************************)
Init ==
    /\ SegIdle
    /\ LoadIdle
    /\ PromptIdle
    /\ s3_bucket \in BOOLEAN
    /\ WorkerIdle

\* an except clause that reports a fixed message instead of str(e)
BatchExceptGeneric(e) ==
    /\ yielded' = Append(yielded, ErrorMsg("Inference failed"))
    /\ pc' = "done"

\* an except clause that falls through to the completion message
StreamExceptThenComplete(e) ==
    /\ yielded' = yielded \o <<ErrorMsg(e), CompleteMsg(idx)>>
    /\ pc' = "done"

\* an except clause that only logs
StreamExceptSilent(e) ==
    /\ yielded' = yielded
    /\ pc' = "done"

\* the try block's exception handlers: handler_batch returns, and
\* handler_stream yields, {"error": str(e)}
BatchExcept(e) ==
    /\ yielded' = Append(yielded, ErrorMsg(e))
    /\ pc' = "done"

StreamExcept(e) ==
    /\ yielded' = Append(yielded, ErrorMsg(e))
    /\ pc' = "done"

\* an exception e raised inside the try block of the running handler
Except(e) == IF job.stream THEN StreamExcept(e) ELSE BatchExcept(e)

\* the host calls handler(job) with some job input
Receive ==
    /\ pc = "idle"
    /\ job' \in JobInputs
    /\ pc' = "extract"
    /\ yielded' = <<>>
    /\ escaped' = ""
    /\ loads' = 0
    /\ chunks' = <<>>
    /\ idx' = 0
    /\ calls' = <<>>
    /\ audio_chunks' = <<>>
    /\ fail_at' = -1
    /\ fail_cause' = ""
    /\ upload' = "none"
    /\ wav' = <<>>
    /\ UNCHANGED <<sidevars, envvars>>

\* _extract_and_validate_params returns (None, error): the error is the response
ValidateError ==
    /\ pc = "extract"
    /\ extract_and_validate_params(job).kind = "error"
    /\ yielded' = Append(yielded, ErrorMsg(extract_and_validate_params(job).error))
    /\ pc' = "done"
    /\ UNCHANGED <<sidevars, envvars, job, escaped, loads, chunks, idx, calls,
                   audio_chunks, fail_at, fail_cause, upload, wav>>

\* float()/int() raises in _extract_and_validate_params, which both handlers
\* call outside their try block
ValidateRaise ==
    /\ pc = "extract"
    /\ extract_and_validate_params(job).kind = "raise"
    /\ escaped' = extract_and_validate_params(job).error
    /\ pc' = "done"
    /\ UNCHANGED <<sidevars, envvars, job, yielded, loads, chunks, idx, calls,
                   audio_chunks, fail_at, fail_cause, upload, wav>>

\* a router that sends every format to the pcm_16 generator
AnyFormat(output_format) == TRUE

\* if output_format == 'pcm_16'
KnownFormat(output_format) == output_format = "pcm_16"

\* validation passed: batch goes to generate, stream routes on output_format
ValidateOk ==
    /\ pc = "extract"
    /\ extract_and_validate_params(job).kind = "params"
    /\ pc' = IF job.stream /\ ~KnownFormat(OutputFormat(job)) THEN "badformat" ELSE "load"
    /\ UNCHANGED <<sidevars, envvars, job, yielded, escaped, loads, chunks, idx, calls,
                   audio_chunks, fail_at, fail_cause, upload, wav>>

\* else: yield {"error": "Unknown output_format"}
UnknownFormat ==
    /\ pc = "badformat"
    /\ yielded' = Append(yielded, ErrorMsg("Unknown output_format"))
    /\ pc' = "done"
    /\ UNCHANGED <<sidevars, envvars, job, escaped, loads, chunks, idx, calls,
                   audio_chunks, fail_at, fail_cause, upload, wav>>

\* if self.model is None: self.load_model(), from_pretrained succeeding; whether
\* the pretrained model brings its own conditionals is up to the library
LoadModel ==
    /\ pc = "load"
    /\ model = "none"
    /\ model' = "loaded"
    /\ conds' \in BOOLEAN
    /\ loads' = loads + 1
    /\ pc' = "prompt"
    /\ UNCHANGED <<sidevars, s3_bucket, job, yielded, escaped, chunks, idx, calls,
                   audio_chunks, fail_at, fail_cause, upload, wav>>

\* from_pretrained raises: load_model logs and re-raises
LoadModelFails ==
    /\ pc = "load"
    /\ model = "none"
    /\ Except("model load failed")
    /\ UNCHANGED <<sidevars, envvars, job, escaped, loads, chunks, idx, calls,
                   audio_chunks, fail_at, fail_cause, upload, wav>>

\* the model is already loaded
LoadModelSkip ==
    /\ pc = "load"
    /\ model = "loaded"
    /\ pc' = "prompt"
    /\ UNCHANGED <<sidevars, envvars, job, yielded, escaped, loads, chunks, idx, calls,
                   audio_chunks, fail_at, fail_cause, upload, wav>>

\* process_audio_prompt raises for a file that is not there
PromptError(audio_prompt) ==
    IF audio_prompt # "" /\ audio_prompt \notin PromptFiles
    THEN "Audio prompt not found"
    ELSE ""

\* neither a prompt nor conditionals: generate raises ValueError
CondsError(audio_prompt) ==
    IF audio_prompt = "" /\ ~conds THEN "Either 'audio_prompt' must be provided" ELSE ""

\* process_audio_prompt or the conditionals check raises
PromptFails ==
    /\ pc = "prompt"
    /\ PromptError(AudioPrompt(job)) # "" \/ CondsError(AudioPrompt(job)) # ""
    /\ Except(IF PromptError(AudioPrompt(job)) # "" THEN PromptError(AudioPrompt(job))
              ELSE CondsError(AudioPrompt(job)))
    /\ UNCHANGED <<sidevars, envvars, job, escaped, loads, chunks, idx, calls,
                   audio_chunks, fail_at, fail_cause, upload, wav>>

\* the prompt is resolved and the text is cut into chunks
Segment ==
    /\ pc = "prompt"
    /\ PromptError(AudioPrompt(job)) = ""
    /\ CondsError(AudioPrompt(job)) = ""
    /\ chunks' = smart_chunk_text(job.text, MAX_CHUNK_CHARS)
    /\ idx' = 0
    /\ pc' = "synth"
    /\ UNCHANGED <<sidevars, envvars, job, yielded, escaped, loads, calls,
                   audio_chunks, fail_at, fail_cause, upload, wav>>

\* the text of the next model.generate call: generate passes `text` itself when
\* there is one chunk and chunk_text otherwise
CallText == IF Len(chunks) = 1 THEN job.text ELSE chunks[idx + 1]

\* the arguments of one model.generate call: the text, the path
\* process_audio_prompt returned and the parameters generate was given
Call(t) == [text |-> t, audio_prompt_path |-> AudioPrompt(job), params |-> Raw(job)]

\* the audio model.generate returns for chunk k: n samples, each its own
Wav(k, n) == [i \in 1..n |-> <<k, i>>]

\* model.generate returns n samples for chunk idx: the audio is kept for
\* concatenation; a call with a prompt leaves the model's conditionals prepared
Synthesize(n) ==
    /\ pc = "synth"
    /\ ~job.stream
    /\ idx < Len(chunks)
    /\ calls' = Append(calls, Call(CallText))
    /\ conds' = (conds \/ AudioPrompt(job) # "")
    /\ audio_chunks' = Append(audio_chunks, Wav(idx, n))
    /\ idx' = idx + 1
    /\ UNCHANGED <<sidevars, model, s3_bucket, pc, job, yielded, escaped, loads, chunks,
                   fail_at, fail_cause, upload, wav>>

\* str(e) for the exception model.generate raised on chunk k: the loop has the
\* index at hand but the message is the library's own
SynthesisErrorMessage(k, cause) == cause

\* a loop that catches the failure of a chunk and goes on with the next one
OnSynthFailureSkips(cause) ==
    /\ fail_at' = idx
    /\ fail_cause' = cause
    /\ idx' = idx + 1
    /\ UNCHANGED <<pc, yielded, audio_chunks>>

\* what a failing synthesis call does: the exception leaves the loop and
\* generate, and reaches the handler's except clause
OnSynthFailure(cause) ==
    /\ fail_at' = idx
    /\ fail_cause' = cause
    /\ Except(SynthesisErrorMessage(idx, cause))
    /\ UNCHANGED <<idx, audio_chunks>>

\* model.generate raises for chunk idx
SynthesizeFails(cause) ==
    /\ pc = "synth"
    /\ ~job.stream
    /\ idx < Len(chunks)
    /\ calls' = Append(calls, Call(CallText))
    /\ OnSynthFailure(cause)
    /\ UNCHANGED <<sidevars, envvars, job, escaped, loads, chunks, upload, wav>>

\* generate_audio_stream_decoded, chunk idx synthesized: the chunk is yielded at
\* once, numbered from 0
StreamSynthesize ==
    /\ pc = "synth"
    /\ job.stream
    /\ idx < Len(chunks)
    /\ calls' = Append(calls, Call(chunks[idx + 1]))
    /\ conds' = (conds \/ AudioPrompt(job) # "")
    /\ yielded' = Append(yielded, StreamChunkMsg(idx))
    /\ idx' = idx + 1
    /\ UNCHANGED <<sidevars, model, s3_bucket, pc, job, escaped, loads, chunks,
                   audio_chunks, fail_at, fail_cause, upload, wav>>

\* generate_audio_stream_decoded, the synthesis of chunk idx raises: the
\* exception reaches handler_stream's except clause
StreamSynthesizeFails(cause) ==
    /\ pc = "synth"
    /\ job.stream
    /\ idx < Len(chunks)
    /\ calls' = Append(calls, Call(chunks[idx + 1]))
    /\ OnSynthFailure(cause)
    /\ UNCHANGED <<sidevars, envvars, job, escaped, loads, chunks, upload, wav>>

\* np.concatenate(audio_chunks, axis=0)
RECURSIVE Concat(_)
Concat(ws) == IF ws = <<>> THEN <<>> ELSE Head(ws) \o Concat(Tail(ws))

\* tensor.unsqueeze(0): a batch of one row
Unsqueeze(samples) == <<samples>>

\* what generate returns: the model's (1, n) tensor for one chunk, else the
\* squeezed chunk audios concatenated and given back their batch dimension
FinalWav(audios) ==
    IF Len(audios) = 1 THEN Unsqueeze(audios[1]) ELSE Unsqueeze(Concat(audios))

\* generate returns to handler_batch
Assemble ==
    /\ pc = "synth"
    /\ ~job.stream
    /\ idx = Len(chunks)
    /\ wav' = FinalWav(audio_chunks)
    /\ pc' = "encode"
    /\ UNCHANGED <<sidevars, envvars, job, yielded, escaped, loads, chunks, idx, calls,
                   audio_chunks, fail_at, fail_cause, upload>>

\* wav.shape[0] and wav.shape[1]
Rows(w) == Len(w)
Cols(w) == Len(w[1])

\* wav.T
Transpose(w) == [j \in 1..Cols(w) |-> [i \in 1..Rows(w) |-> w[i][j]]]

\* a handler that hands the (channels, samples) array to sf.write as it is
SoundfileLayoutAsIs(w) == w

\* if len(wav.shape) > 1 and wav.shape[0] < wav.shape[1]: wav = wav.T
SoundfileLayout(w) == IF Rows(w) < Cols(w) THEN Transpose(w) ELSE w

\* sf.write takes the channel count from shape[1] and cannot open a file of
\* no channels
WriteRaises(w) == Cols(w) < 1

\* what happens to the transfer inside upload_to_s3: not attempted without
\* S3_BUCKET_NAME, else boto3 returns or raises
Transfer(bucket, upload_ok) ==
    IF ~bucket THEN "skipped" ELSE IF upload_ok THEN "ok" ELSE "failed"

\* an upload that reports a URL even when the transfer raised
upload_to_s3_always(bucket, upload_ok) ==
    IF bucket THEN "https://s3/session.ogg" ELSE ""

\* upload_to_s3: None without S3_BUCKET_NAME, None when boto3 raises, else the
\* presigned URL; "" stands for None
upload_to_s3(bucket, upload_ok) ==
    IF ~bucket THEN ""
    ELSE IF upload_ok THEN "https://s3/session.ogg"
    ELSE ""

\* handler_batch after generate returned: lay out, encode, save, upload, respond
BatchRespond(upload_ok) ==
    /\ pc = "encode"
    /\ ~WriteRaises(SoundfileLayout(wav))
    /\ wav' = SoundfileLayout(wav)
    /\ upload' = Transfer(s3_bucket, upload_ok)
    /\ yielded' = Append(yielded, BatchResponse(upload_to_s3(s3_bucket, upload_ok), wav'))
    /\ pc' = "done"
    /\ UNCHANGED <<sidevars, envvars, job, escaped, loads, chunks, idx, calls,
                   audio_chunks, fail_at, fail_cause>>

\* sf.write, makedirs or the local save raises inside the try block
BatchEncodeFails ==
    /\ pc = "encode"
    /\ BatchExcept("could not write audio")
    /\ UNCHANGED <<sidevars, envvars, job, escaped, loads, chunks, idx, calls,
                   audio_chunks, fail_at, fail_cause, upload, wav>>

\* the stream after its last chunk: one complete message
StreamComplete ==
    /\ pc = "synth"
    /\ job.stream
    /\ idx = Len(chunks)
    /\ yielded' = Append(yielded, CompleteMsg(idx))
    /\ pc' = "done"
    /\ UNCHANGED <<sidevars, envvars, job, escaped, loads, chunks, idx, calls,
                   audio_chunks, fail_at, fail_cause, upload, wav>>

\* the generator is exhausted (or the exception has reached the host); the
\* locals of the call are gone
Return ==
    /\ pc = "done"
    /\ pc' = "idle"
    /\ job' = NoJob
    /\ yielded' = <<>>
    /\ escaped' = ""
    /\ loads' = 0
    /\ chunks' = <<>>
    /\ idx' = 0
    /\ calls' = <<>>
    /\ audio_chunks' = <<>>
    /\ fail_at' = -1
    /\ fail_cause' = ""
    /\ upload' = "none"
    /\ wav' = <<>>
    /\ UNCHANGED <<sidevars, envvars>>

Next ==
    \/ Receive
    \/ ValidateError
    \/ ValidateRaise
    \/ ValidateOk
    \/ UnknownFormat
    \/ LoadModel
    \/ LoadModelFails
    \/ LoadModelSkip
    \/ PromptFails
    \/ Segment
    \/ \E n \in 0..MaxSamples : Synthesize(n)
    \/ \E cause \in Causes : SynthesizeFails(cause)
    \/ StreamSynthesize
    \/ \E cause \in Causes : StreamSynthesizeFails(cause)
    \/ Assemble
    \/ \E upload_ok \in BOOLEAN : BatchRespond(upload_ok)
    \/ BatchEncodeFails
    \/ StreamComplete
    \/ Return

Spec == Init /\ [][Next]_vars

(***************************************************************************)
(* load_model called by requests that run at the same time: the handler    *)
(* holds no lock, so the callers' steps interleave freely.                 *)
(***************************************************************************)
\* how many requests call load_model at the same time
MaxCallers == 3
Callers == 1..MaxCallers

LoadInit ==
    /\ SegIdle
    /\ PromptIdle
    /\ s3_bucket = FALSE
    /\ WorkerIdle
    /\ ld_pc = [c \in Callers |-> "idle"]
    /\ ld_model = 0
    /\ ld_built = 0
    /\ ld_seen = [c \in Callers |-> 0]

\* a request reaches load_model (generate, or handler_batch for the sample rate)
LoadCall(c) ==
    /\ ld_pc[c] = "idle"
    /\ ld_pc' = [ld_pc EXCEPT ![c] = "check"]
    /\ UNCHANGED <<ld_model, ld_built, ld_seen, segvars, papvars, envvars, reqvars>>

\* if self.model is not None: on to `return self.model`
LoadCheckLoaded(c) ==
    /\ ld_pc[c] = "check"
    /\ ld_model # 0
    /\ ld_pc' = [ld_pc EXCEPT ![c] = "loaded"]
    /\ UNCHANGED <<ld_model, ld_built, ld_seen, segvars, papvars, envvars, reqvars>>

\* self.model is None: the caller goes on to build the model
LoadCheckNone(c) ==
    /\ ld_pc[c] = "check"
    /\ ld_model = 0
    /\ ld_pc' = [ld_pc EXCEPT ![c] = "construct"]
    /\ UNCHANGED <<ld_model, ld_built, ld_seen, segvars, papvars, envvars, reqvars>>

\* self.model = ChatterboxTurboTTS.from_pretrained(...): a new instance is
\* built and stored
LoadConstruct(c) ==
    /\ ld_pc[c] = "construct"
    /\ ld_built' = ld_built + 1
    /\ ld_model' = ld_built + 1
    /\ ld_pc' = [ld_pc EXCEPT ![c] = "loaded"]
    /\ UNCHANGED <<ld_seen, segvars, papvars, envvars, reqvars>>

\* from_pretrained raises: logged and re-raised to the caller
LoadConstructFails(c) ==
    /\ ld_pc[c] = "construct"
    /\ ld_pc' = [ld_pc EXCEPT ![c] = "idle"]
    /\ UNCHANGED <<ld_model, ld_built, ld_seen, segvars, papvars, envvars, reqvars>>

\* return self.model
LoadReturn(c) ==
    /\ ld_pc[c] = "loaded"
    /\ ld_seen' = [ld_seen EXCEPT ![c] = ld_model]
    /\ ld_pc' = [ld_pc EXCEPT ![c] = "idle"]
    /\ UNCHANGED <<ld_model, ld_built, segvars, papvars, envvars, reqvars>>

LoadNext ==
    \/ \E c \in Callers : LoadCall(c)
    \/ \E c \in Callers : LoadCheckLoaded(c)
    \/ \E c \in Callers : LoadCheckNone(c)
    \/ \E c \in Callers : LoadConstruct(c)
    \/ \E c \in Callers : LoadConstructFails(c)
    \/ \E c \in Callers : LoadReturn(c)

LoadSpec == LoadInit /\ [][LoadNext]_vars

(***************************************************************************)
(* process_audio_prompt called on its own.  Paths are pathlib paths: a     *)
(* flag for the root and the sequence of components, each a str; the file  *)
(* system has no symbolic links.  The volume is laid out as                *)
(*   /v/p    AUDIO_PROMPTS_DIR, holding a.wav, a.WAV and a.txt             *)
(*   /v/pe   a sibling whose name starts with the name of the prompts dir  *)
(*   /v/o    another sibling (the output directory)                        *)
(* with a.wav in each sibling.                                             *)
(***************************************************************************)
\* config.AUDIO_PROMPTS_DIR, with one-letter directory names
AUDIO_PROMPTS_DIR == <<"/", "v", "/", "p">>

AUDIO_EXTS ==
    { <<".", "w", "a", "v">>,
      <<".", "m", "p", "3">>,
      <<".", "m", "4", "a">>,
      <<".", "o", "g", "g">>,
      <<".", "f", "l", "a", "c">>,
      <<".", "w", "e", "b", "m">>,
      <<".", "a", "a", "c">>,
      <<".", "o", "p", "u", "s">> }

\* the names a request can put into audio_prompt, between slashes
PromptNames ==
    { <<".", ".">>, <<".">>, <<"p">>, <<"p", "e">>, <<"o">>,
      <<"a", ".", "w", "a", "v">>, <<"a", ".", "W", "A", "V">>,
      <<"a", ".", "t", "x", "t">>, <<"n", ".", "w", "a", "v">> }

\* an audio_prompt has at most this many names
MaxParts == 3

\* names joined with "/"
RECURSIVE JoinSlash(_)
JoinSlash(names) ==
    IF names = <<>> THEN <<>>
    ELSE IF Len(names) = 1 THEN names[1]
    ELSE names[1] \o <<"/">> \o JoinSlash(Tail(names))

\* the audio_prompt values of the run: relative and absolute
PromptInputs ==
    UNION { { JoinSlash(names) : names \in [1..n -> PromptNames] } \cup
            { <<"/">> \o JoinSlash(names) : names \in [1..n -> PromptNames] }
            : n \in 0..MaxParts }

\* str.split("/") without the empty pieces
RECURSIVE SplitSlash(_, _, _, _)
SplitSlash(s, i, name, acc) ==
    IF i > Len(s)
    THEN IF name # <<>> THEN Append(acc, name) ELSE acc
    ELSE IF s[i] = "/"
         THEN SplitSlash(s, i + 1, <<>>, IF name # <<>> THEN Append(acc, name) ELSE acc)
         ELSE SplitSlash(s, i + 1, Append(name, s[i]), acc)

\* Path(s): pathlib drops empty and "." components when it parses
Path(s) ==
    [ abs   |-> s # <<>> /\ s[1] = "/",
      parts |-> SelectSeq(SplitSlash(s, 1, <<>>, <<>>), LAMBDA n : n # <<".">>) ]

\* Path(a) / b: an absolute right operand replaces the left one
PathJoin(a, b) ==
    IF b.abs THEN b ELSE [abs |-> a.abs, parts |-> a.parts \o b.parts]

\* the components with each ".." taking back the component before it
RECURSIVE Normalize(_, _)
Normalize(parts, acc) ==
    IF parts = <<>> THEN acc
    ELSE IF Head(parts) = <<".", ".">>
         THEN Normalize(Tail(parts),
                        IF acc = <<>> THEN acc ELSE SubSeq(acc, 1, Len(acc) - 1))
         ELSE Normalize(Tail(parts), Append(acc, Head(parts)))

\* Path.resolve() of an absolute path; there are no links to follow
Resolve(path) == [abs |-> TRUE, parts |-> Normalize(path.parts, <<>>)]

\* str(path)
PathStr(path) ==
    IF path.parts = <<>> THEN <<"/">> ELSE <<"/">> \o JoinSlash(path.parts)

\* s.startswith(prefix)
StartsWith(s, prefix) ==
    Len(prefix) <= Len(s) /\ SubSeq(s, 1, Len(prefix)) = prefix

\* the directories and files of the volume
Dirs(dir_exists) ==
    { <<>>, << <<"v">> >>, << <<"v">>, <<"p", "e">> >>, << <<"v">>, <<"o">> >> }
    \cup (IF dir_exists THEN { << <<"v">>, <<"p">> >> } ELSE {})

Files(dir_exists) ==
    { << <<"v">>, <<"p", "e">>, <<"a", ".", "w", "a", "v">> >>,
      << <<"v">>, <<"o">>, <<"a", ".", "w", "a", "v">> >> }
    \cup (IF dir_exists
          THEN { << <<"v">>, <<"p">>, <<"a", ".", "w", "a", "v">> >>,
                 << <<"v">>, <<"p">>, <<"a", ".", "W", "A", "V">> >>,
                 << <<"v">>, <<"p">>, <<"a", ".", "t", "x", "t">> >> }
          ELSE {})

\* path.exists()
Exists(path, dir_exists) == path.parts \in Dirs(dir_exists) \cup Files(dir_exists)

\* the last "." of a name that is neither its first nor its last character
LastDot(name) ==
    LET dots == {i \in 2..(Len(name) - 1) : name[i] = "."}
    IN  IF dots = {} THEN 0 ELSE CHOOSE i \in dots : \A j \in dots : j <= i

\* path.suffix
Suffix(path) ==
    IF path.parts = <<>> THEN <<>>
    ELSE LET name == path.parts[Len(path.parts)]
         IN  IF LastDot(name) = 0 THEN <<>> ELSE SubSeq(name, LastDot(name), Len(name))

\* str.lower() over the letters of the names
Lower(s) ==
    [i \in 1..Len(s) |->
        IF s[i] = "W" THEN "w" ELSE IF s[i] = "A" THEN "a" ELSE IF s[i] = "V" THEN "v" ELSE s[i]]

\* the security check of the try block and its except clause: "" when the
\* path is let through, else the message of the ValueError that leaves
PathCheck(full_path, dir_exists) ==
    LET prompts_dir == Resolve(Path(AUDIO_PROMPTS_DIR))
        detected == dir_exists /\ ~StartsWith(PathStr(full_path), PathStr(prompts_dir))
    IN  IF detected /\ ~StartsWith(PathStr(full_path), AUDIO_PROMPTS_DIR)
        THEN "Invalid audio_prompt path"
        ELSE ""

\* process_audio_prompt: None for no prompt, a ValueError, or str(full_path)
process_audio_prompt(audio_prompt_path, dir_exists) ==
    IF audio_prompt_path = <<>> THEN [kind |-> "none", value |-> <<>>]
    ELSE LET full_path == Resolve(PathJoin(Path(AUDIO_PROMPTS_DIR), Path(audio_prompt_path)))
         IN  IF PathCheck(full_path, dir_exists) # ""
             THEN [kind |-> "raise", value |-> PathCheck(full_path, dir_exists)]
             ELSE IF ~Exists(full_path, dir_exists)
             THEN [kind |-> "raise", value |-> "Audio prompt not found"]
             ELSE IF Lower(Suffix(full_path)) \notin AUDIO_EXTS
             THEN [kind |-> "raise", value |-> "Unsupported audio format"]
             ELSE [kind |-> "path", value |-> PathStr(full_path)]

PromptRunInit ==
    /\ SegIdle
    /\ LoadIdle
    /\ s3_bucket = FALSE
    /\ WorkerIdle
    /\ pap_prompt \in PromptInputs
    /\ pap_dir \in BOOLEAN
    /\ pap_pc = "call"
    /\ pap_out = <<>>

\* process_audio_prompt returns None or a path
PromptRunReturns ==
    /\ pap_pc = "call"
    /\ process_audio_prompt(pap_prompt, pap_dir).kind # "raise"
    /\ pap_out' = process_audio_prompt(pap_prompt, pap_dir).value
    /\ pap_pc' = "returned"
    /\ UNCHANGED <<pap_prompt, pap_dir, segvars, ldvars, envvars, reqvars>>

\* process_audio_prompt raises: generate stops before any model.generate call
PromptRunRaises ==
    /\ pap_pc = "call"
    /\ process_audio_prompt(pap_prompt, pap_dir).kind = "raise"
    /\ pap_pc' = "raised"
    /\ UNCHANGED <<pap_prompt, pap_dir, pap_out, segvars, ldvars, envvars, reqvars>>

PromptRunNext == PromptRunReturns \/ PromptRunRaises

PromptSpec == PromptRunInit /\ [][PromptRunNext]_vars

(***************************************************************************)
(* Properties of the segmenter, checked under SegSpec.                     *)
(***************************************************************************)
\* a chunk that is one whitespace-delimited token longer than max_chars
OversizedToken(chunk, max_chars) ==
    /\ Len(Split(chunk)) = 1
    /\ Len(Split(chunk)[1]) > max_chars

\* C1: every chunk _smart_chunk_text returns is at most max_chars long or is a
\* single whitespace-delimited token longer than max_chars, the short-text
\* return and the [text] fallback included.
C1_ChunkWithinMaxOrSingleToken ==
    seg_pc = "returned" =>
        \A k \in 1..Len(seg_out) :
            Len(seg_out[k]) <= seg_max \/ OversizedToken(seg_out[k], seg_max)

\* C2: the chunks joined with single spaces have the whitespace-delimited
\* tokens of the text, in order, none dropped, none added.
C2_TokensPreserved ==
    seg_pc = "returned" => Split(JoinSpace(seg_out)) = Split(seg_text)

\* C3 as stated: a text no longer than max_chars comes back as one chunk equal
\* to the text with leading and trailing whitespace trimmed.
C3_ShortTextTrimmed ==
    (seg_pc = "returned" /\ Len(seg_text) <= seg_max) => seg_out = <<Strip(seg_text)>>

\* C3 amended: a text no longer than max_chars comes back as one chunk equal to
\* the text as given, whitespace included.
C3_ShortTextAsIs ==
    (seg_pc = "returned" /\ Len(seg_text) <= seg_max) => seg_out = <<seg_text>>

\* a short text with whitespace to trim has been returned
C3_Witness ==
    /\ seg_pc = "returned"
    /\ Len(seg_text) = seg_max
    /\ Strip(seg_text) # seg_text
    /\ Strip(seg_text) # <<>>
    /\ seg_out = <<seg_text>>

(***************************************************************************)
(* Properties of the worker, checked under Spec.                           *)
(***************************************************************************)
\* the job passed validation
ValidParams == extract_and_validate_params(job).kind = "params"

\* a synthesis call of the current batch job / stream job has failed
BatchFailed == pc = "done" /\ ~job.stream /\ fail_at >= 0
StreamFailed == pc = "done" /\ job.stream /\ fail_at >= 0

\* C4: in batch mode, once the synthesis call for chunk k has failed no call is
\* issued for a later chunk, and the one response is {error: ...}: no
\* audio_url, no audio_base64, no status "success", no audio of chunks 0..k-1.
C4_BatchAbortsOnFirstFailure ==
    (~job.stream /\ fail_at >= 0) =>
        /\ Len(calls) = fail_at + 1
        /\ Len(yielded) = 1
        /\ DOMAIN yielded[1] = {"error"}

\* a three-chunk batch job whose second synthesis call failed
C4_Witness ==
    /\ BatchFailed
    /\ Len(chunks) = 3
    /\ fail_at = 1
    /\ Len(audio_chunks) = 1
    /\ IsError(yielded[1])

OutOfRange(p, lo, hi) == p.k = "num" /\ ~InRange(lo, p.v, hi)

\* the requests C6 is about: no text, a text over MAX_TEXT_LENGTH, or a
\* generation parameter outside its declared range
DeclaredInvalid(job_input) ==
    \/ job_input.text = <<>>
    \/ Len(job_input.text) > MAX_TEXT_LENGTH
    \/ OutOfRange(job_input.opt.exaggeration, MIN_EXAGGERATION, MAX_EXAGGERATION)
    \/ OutOfRange(job_input.opt.cfg_weight, MIN_CFG_WEIGHT, MAX_CFG_WEIGHT)
    \/ OutOfRange(job_input.opt.min_p, 0, 100)
    \/ OutOfRange(job_input.opt.top_p, MIN_TOP_P, MAX_TOP_P)
    \/ OutOfRange(job_input.opt.temperature, MIN_TEMPERATURE, MAX_TEMPERATURE)
    \/ OutOfRange(job_input.opt.top_k, MIN_TOP_K, MAX_TOP_K)

\* C6: a request, batch or stream, with no text, a text over MAX_TEXT_LENGTH or
\* a generation parameter outside its declared range gets an error, and the
\* handler neither loads the model nor issues a synthesis call for it.  (Stated
\* for the requests whose parameters all convert to numbers.)
C6_InvalidRejectedBeforeSynthesis ==
    (pc # "idle" /\ DeclaredInvalid(job) /\ ~ConversionRaises(job)) =>
        /\ loads = 0
        /\ calls = <<>>
        /\ pc = "done" => (yielded # <<>> /\ IsError(yielded[Len(yielded)]))

\* C7: every invocation of handler ends with a structured value yielded, a
\* success, stream or error message; no exception leaves the handler.
C7_NoExceptionEscapes ==
    pc = "done" =>
        /\ escaped = ""
        /\ yielded # <<>>
        /\ \/ IsError(yielded[Len(yielded)])
           \/ HasStatus(yielded[Len(yielded)], "success")
           \/ HasStatus(yielded[Len(yielded)], "complete")

\* C8: a stream of three chunks whose synthesis of chunk 1 fails yields exactly
\* the chunk message 0 and then one error message: no chunk 1 or 2, no complete.
C8_StreamFailsAtSecondOfThree ==
    (job.stream /\ Len(chunks) = 3 /\ fail_at = 1) =>
        yielded = <<StreamChunkMsg(0), ErrorMsg(fail_cause)>>

\* the stream of a three-chunk text has ended on the failure of chunk 1
C8_Witness ==
    /\ StreamFailed
    /\ Len(chunks) = 3
    /\ fail_at = 1
    /\ Len(calls) = 2
    /\ Len(yielded) = 2

\* the messages before the last are the chunk messages 0, 1, 2, ... in order
ChunksThenLast(ms) ==
    \A i \in 1..(Len(ms) - 1) : ms[i] = StreamChunkMsg(i - 1)

\* C9: the stream of a valid pcm_16 request is the chunk messages 0, 1, 2, ...
\* in order, then exactly one terminal message, complete or error; on success
\* the chunks are 0..totalChunks-1 and total_chunks counts the chunk messages.
C9_StreamWellFormed ==
    (job.stream /\ ValidParams /\ KnownFormat(OutputFormat(job))) =>
        IF pc = "done"
        THEN /\ yielded # <<>>
             /\ ChunksThenLast(yielded)
             /\ \/ IsError(yielded[Len(yielded)])
                \/ /\ yielded[Len(yielded)] = CompleteMsg(Len(yielded) - 1)
                   /\ Len(yielded) - 1 = Len(chunks)
        ELSE \A i \in 1..Len(yielded) : yielded[i] = StreamChunkMsg(i - 1)

\* a stream of three chunks has completed
C9_Witness ==
    /\ pc = "done"
    /\ job.stream
    /\ Len(chunks) = 3
    /\ yielded = <<StreamChunkMsg(0), StreamChunkMsg(1), StreamChunkMsg(2), CompleteMsg(3)>>

\* C10: a stream request with valid parameters and an output_format other than
\* pcm_16 yields one message, an error, and ends; the model is not loaded and no
\* synthesis call is issued for it.
C10_UnknownFormatFailsFast ==
    (job.stream /\ ValidParams /\ OutputFormat(job) # "pcm_16") =>
        /\ loads = 0
        /\ calls = <<>>
        /\ IF pc = "done"
           THEN Len(yielded) = 1 /\ IsError(yielded[1])
           ELSE yielded = <<>>

\* a stream request for mp3 has ended with its error
C10_Witness ==
    /\ pc = "done"
    /\ job.stream
    /\ ValidParams
    /\ OutputFormat(job) = "mp3"
    /\ model = "none"
    /\ yielded = <<ErrorMsg("Unknown output_format")>>

\* handler_batch has returned a success response
BatchSucceeded ==
    /\ pc = "done"
    /\ ~job.stream
    /\ yielded # <<>>
    /\ HasStatus(yielded[Len(yielded)], "success")

\* the response the finished request returned
Response == yielded[Len(yielded)]

ExactlyOneAudioKey(m) ==
    ("audio_url" \in DOMAIN m) <=> ~("audio_base64" \in DOMAIN m)

\* C11 (as stated): a successful batch response carries exactly one of audio_url
\* and audio_base64, and audio_base64 exactly when no S3 bucket is configured.
C11_Base64OnlyWithoutBucket ==
    BatchSucceeded =>
        /\ ExactlyOneAudioKey(Response)
        /\ ("audio_base64" \in DOMAIN Response) <=> ~s3_bucket

\* C11 (amended): a successful batch response carries exactly one of audio_url
\* and audio_base64; it carries audio_url exactly when a bucket is configured
\* and the upload went through, and audio_base64 otherwise, a failed upload
\* with a bucket configured included.
C11_UrlOnlyAfterUpload ==
    BatchSucceeded =>
        /\ ExactlyOneAudioKey(Response)
        /\ ("audio_url" \in DOMAIN Response) <=> (s3_bucket /\ upload = "ok")
        /\ ~s3_bucket => "audio_base64" \in DOMAIN Response

\* a bucket is configured, the upload failed and the response fell back to base64
C11_Witness ==
    /\ BatchSucceeded
    /\ s3_bucket
    /\ upload = "failed"
    /\ "audio_base64" \in DOMAIN Response

\* the lower end of the temperature range the handler documents: 0.05
DOC_MIN_TEMPERATURE == 5

\* every field but the temperature passes _extract_and_validate_params
OthersValid(job_input) ==
    /\ job_input.text # <<>>
    /\ ~ConversionRaises(job_input)
    /\ RangeError(job_input.text,
                  [Raw(job_input) EXCEPT !.temperature = Num(DEFAULT_TEMPERATURE)]) = ""

\* the validator has answered the request with its temperature error
TemperatureRejected ==
    yielded # <<>> /\ yielded[1] = ErrorMsg("temperature must be between")

\* C13: with all other fields valid, the validator accepts every temperature in
\* the documented range [0.05, 2.0] and rejects every temperature outside it; a
\* temperature between 0.05 and 0.1 is not rejected.
C13_DocumentedTemperatureAccepted ==
    (pc \notin {"idle", "extract"} /\ OthersValid(job)) =>
        (InRange(DOC_MIN_TEMPERATURE, Raw(job).temperature.v, MAX_TEMPERATURE)
            <=> ~TemperatureRejected)

(***************************************************************************)
(* Tokens of the segmenter's chunks, checked under SegSpec.                *)
(***************************************************************************)
\* the whitespace-delimited tokens of a text, as a set
Tokens(s) == {Split(s)[j] : j \in 1..Len(Split(s))}

\* C15: _smart_chunk_text never splits inside a whitespace-delimited token:
\* every token of every chunk is a whole token of the text, and a token longer
\* than max_chars is returned as a chunk made of that token alone.
C15_NoTokenFractured ==
    seg_pc = "returned" =>
        /\ \A k \in 1..Len(seg_out) : Tokens(seg_out[k]) \subseteq Tokens(seg_text)
        /\ \A k \in 1..Len(seg_out) : \A t \in Tokens(seg_out[k]) :
               Len(t) > seg_max => seg_out[k] = t
        /\ \A t \in Tokens(seg_text) :
               Len(t) > seg_max => \E k \in 1..Len(seg_out) : seg_out[k] = t

\* a text with punctuation inside a token longer than max_chars, returned in
\* more than one chunk, the long token being one of them
C15_Witness ==
    /\ seg_pc = "returned"
    /\ Len(seg_out) > 1
    /\ \E k \in 1..Len(seg_out) :
           /\ OversizedToken(seg_out[k], seg_max)
           /\ \E i \in 1..Len(seg_out[k]) : seg_out[k][i] \in {",", "-", "."}

(***************************************************************************)
(* The calls generate issues and the audio handler_batch returns, checked  *)
(* under Spec.                                                             *)
(***************************************************************************)
\* generate has returned: every chunk went through model.generate
GenerateReturned == ~job.stream /\ pc \in {"encode", "done"} /\ fail_at < 0 /\ wav # <<>>

\* C16: for a successful call of generate there are as many model.generate
\* calls as chunks, the k-th call gets exactly the text of the k-th chunk, and
\* every call gets the same voice prompt path and the same parameters.
C16_CallsMatchChunks ==
    GenerateReturned =>
        /\ Len(calls) = Len(chunks)
        /\ \A k \in 1..Len(calls) :
               /\ calls[k].text = chunks[k]
               /\ calls[k].audio_prompt_path = calls[1].audio_prompt_path
               /\ calls[k].params = calls[1].params

\* the sum of the per-chunk sample counts
RECURSIVE TotalSamples(_)
TotalSamples(ws) == IF ws = <<>> THEN 0 ELSE Len(Head(ws)) + TotalSamples(Tail(ws))

\* the samples of the one channel of a (samples, 1) array, in order
Channel(w) == [i \in 1..Len(w) |-> w[i][1]]

\* C17: for a successful batch request the audio written is the per-chunk
\* sample sequences concatenated in chunk order, its sample count is the sum of
\* the per-chunk counts, and duration_sec is that count over the sample rate,
\* whatever the per-chunk lengths, 0 and 1 included.
C17_DurationIsTotalSamples ==
    BatchSucceeded =>
        /\ Len(audio_chunks) = Len(chunks)
        /\ \A i \in 1..Len(wav) : Len(wav[i]) = 1
        /\ Channel(wav) = Concat(audio_chunks)
        /\ Len(wav) = TotalSamples(audio_chunks)
        /\ Response.sample_rate = sample_rate
        /\ Response.duration_sec =
               [num |-> TotalSamples(audio_chunks), den |-> sample_rate]
        /\ "audio_base64" \in DOMAIN Response =>
               Response.audio_base64 = Base64Ogg(wav)

\* a successful batch request of three chunks, one of them without samples and
\* one of a single sample
C17_Witness ==
    /\ BatchSucceeded
    /\ Len(audio_chunks) = 3
    /\ \E k \in 1..3 : Len(audio_chunks[k]) = 0
    /\ \E k \in 1..3 : Len(audio_chunks[k]) = 1
    /\ TotalSamples(audio_chunks) >= 2

(***************************************************************************)
(* load_model under concurrent callers, checked under LoadSpec.            *)
(***************************************************************************)
\* C12: whatever the interleaving of the requests of one process, the model is
\* built at most once, and every load_model call that returns hands back the
\* same instance.
C12_ModelConstructedOnce ==
    /\ ld_built <= 1
    /\ \A c \in DOMAIN ld_seen : \A d \in DOMAIN ld_seen :
           (ld_seen[c] # 0 /\ ld_seen[d] # 0) => ld_seen[c] = ld_seen[d]

(***************************************************************************)
(* process_audio_prompt, checked under PromptSpec.                         *)
(***************************************************************************)
\* the resolved path lies under the directory, component by component
InsideDir(path, dir) ==
    /\ Len(Resolve(path).parts) > Len(Resolve(dir).parts)
    /\ SubSeq(Resolve(path).parts, 1, Len(Resolve(dir).parts)) = Resolve(dir).parts

\* C14: for every audio_prompt, process_audio_prompt raises or returns a path
\* that resolves to a place inside AUDIO_PROMPTS_DIR itself; a value resolving
\* outside it (a sibling whose name starts alike, or any path while the
\* prompts directory is missing) is rejected.
C14_PromptStaysInsideDir ==
    (pap_pc = "returned" /\ pap_out # <<>>) =>
        InsideDir(Path(pap_out), Path(AUDIO_PROMPTS_DIR))

=============================================================================
